---- MODULE Spec2Model ----
(***************************************************************************)
(* Model of the after-school lessons backend (src/public/server.js):       *)
(* the POST /orders and PUT /lessons/:id handlers against the Lessons and  *)
(* Orders collections of the document store.  Every store call of a        *)
(* handler is awaited, so a handler is split at its awaits: the store      *)
(* applies the call in a later step, and the handler's continuation runs   *)
(* in that same step.                                                      *)
(***************************************************************************)
EXTENDS Integers, Sequences, FiniteSets, TLC

VARIABLES Lessons, Orders, orderReq, putReq, lessonsData

vars == <<Lessons, Orders, orderReq, putReq, lessonsData>>

(* ---------------------------- bounds ---------------------------------- *)
MaxOrders == 2      \* POST /orders requests received
MaxUpdates == 1     \* PUT /lessons/:id requests received
MaxMixedOrders == 1 \* POST /orders requests received while lessons are updated
MaxLines == 2       \* line items in one lessonIDs array
NumLessons == 2     \* documents of the seed list loaded in the catalog

(* ------------------------- JSON / BSON values ------------------------- *)
Num(n) == [t |-> "number", n |-> n, s |-> ""]
Str(s) == [t |-> "string", n |-> 0, s |-> s]
Undefined == [t |-> "undefined", n |-> 0, s |-> ""]
Null == [t |-> "null", n |-> 0, s |-> ""]
ObjectId(hex) == [t |-> "objectId", n |-> 0, s |-> hex]

\* 24-character hex strings of the model's universe; OidHex[i] is the _id the
\* store gave to the i-th seeded lesson, UnknownHex belongs to no document.
OidHex == <<"64b000000000000000000001", "64b000000000000000000002",
            "64b000000000000000000003", "64b000000000000000000004">>
UnknownHex == "64b0000000000000000000ff"
HexStrings == {OidHex[i] : i \in 1..Len(OidHex)} \cup {UnknownHex}

\* JS truthiness, as used by !payload.name and entry.lessonId && ...
Truthy(v) ==
    CASE v.t = "number" -> v.n # 0
      [] v.t = "string" -> v.s # ""
      [] v.t = "objectId" -> TRUE
      [] OTHER -> FALSE

\* The decimal strings of the model's universe and their values.
DecimalStrings == {"", "1", "2", "4", "9"}
ParseDecimal(s) ==
    CASE s = "1" -> 1
      [] s = "2" -> 2
      [] s = "4" -> 4
      [] s = "9" -> 9
      [] OTHER -> 0

\* JS Number(v): nan is TRUE when the conversion yields NaN.
Number(v) ==
    CASE v.t = "number" -> [nan |-> FALSE, n |-> v.n]
      [] v.t = "string" /\ v.s \in DecimalStrings -> [nan |-> FALSE, n |-> ParseDecimal(v.s)]
      [] OTHER -> [nan |-> TRUE, n |-> 0]

\* ObjectId.isValid(String(v)): only a 24-character hex string qualifies; the
\* decimal rendering of a number of the model and "undefined" never do.
ObjectIdIsValid(v) == v.t = "string" /\ v.s \in HexStrings

(* ------------------------------ seed ---------------------------------- *)
SeedSubjects == <<"Math", "English", "Science", "Art">>
SeedLocations == <<"Hendon", "Colindale", "Brent Cross", "Golders G">>
SeedPrices == <<100, 80, 90, 95>>
SeedIcons == <<"fa-solid fa-calculator", "fa-solid fa-book",
               "fa-solid fa-flask", "fa-solid fa-palette">>
SeedSpaces == 5

SeedLesson(i) ==
    [_id |-> ObjectId(OidHex[i]), id |-> Num(i), subject |-> Str(SeedSubjects[i]),
     location |-> Str(SeedLocations[i]), price |-> Num(SeedPrices[i]),
     spaces |-> Num(SeedSpaces), icon |-> Str(SeedIcons[i])]

SeedCatalog == [i \in 1..NumLessons |-> SeedLesson(i)]

(* ------------------------- store: Lessons ----------------------------- *)
\* The driver serialises an undefined value as BSON null.
Bson(v) == IF v.t = "undefined" THEN Null ELSE v

\* Does a document satisfy the one-field equality filter?  A null filter value
\* matches a document whose field is null or absent.
Matches(doc, filter) ==
    IF filter.field \in DOMAIN doc
    THEN doc[filter.field] = Bson(filter.value)
    ELSE Bson(filter.value).t = "null"

\* Index of the first document in natural order matching the filter, 0 if none.
FindOne(lessons, filter) ==
    LET hits == {i \in 1..Len(lessons) : Matches(lessons[i], filter)}
    IN IF hits = {} THEN 0 ELSE CHOOSE i \in hits : \A j \in hits : i <= j

\* Variant: the decrement stops at zero.
IncSpacesFloor(doc, qty) ==
    [doc EXCEPT !.spaces = Num(IF doc.spaces.n - qty < 0 THEN 0 ELSE doc.spaces.n - qty)]

\* updateOne(filter, {$inc: {spaces: -qty}}): the first matching document has
\* its spaces reduced by qty in one atomic store operation; no match is a
\* successful no-op; a non-numeric spaces makes the store reject the update.
IncSpaces(doc, qty) == [doc EXCEPT !.spaces = Num(doc.spaces.n - qty)]

UpdateOneInc(lessons, filter, qty) ==
    LET i == FindOne(lessons, filter)
    IN IF i = 0 THEN [ok |-> TRUE, matchedCount |-> 0, lessons |-> lessons]
       ELSE IF lessons[i].spaces.t # "number"
            THEN [ok |-> FALSE, matchedCount |-> 1, lessons |-> lessons]
            ELSE [ok |-> TRUE, matchedCount |-> 1,
                  lessons |-> [lessons EXCEPT ![i] = IncSpaces(lessons[i], qty)]]

(* ------------------------- POST /orders inputs ------------------------ *)
Names == {Undefined, Str(""), Str("Ann")}
Phones == {Undefined, Str(""), Str("0712")}
NumberOfSpaces == {Undefined, Str("3"), Num(3)}

\* Line items: lesson 1 by its numeric id with every quantity, lesson 2 by its
\* opaque id, and a decimal-string reference that matches no lesson.
Qtys == {Num(0), Num(3), Str("4"), Str("abc"), Num(-3)}
LineItems ==
    [lessonId : {Num(1)}, qty : Qtys]
    \cup [lessonId : {Str(OidHex[2])}, qty : {Num(3), Str("abc")}]
    \cup [lessonId : {Str("9")}, qty : {Num(3)}]

SeqsUpTo(S, n) == UNION {[1..k -> S] : k \in 0..n}

\* lessonIDs as received: an array of line items, or something that is no array.
NotAnArray == [isArray |-> FALSE, items |-> <<>>]
Array(items) == [isArray |-> TRUE, items |-> items]
LessonIDs == {NotAnArray} \cup {Array(items) : items \in SeqsUpTo(LineItems, MaxLines)}

\* Request bodies: every line-item array under well-formed customer fields,
\* and every combination of customer-field defects over a few arrays.
SampleLine == [lessonId |-> Num(1), qty |-> Num(3)]
Payloads ==
    [name : {Str("Ann")}, phone : {Str("0712")}, lessonIDs : LessonIDs,
     numberOfSpace : {Num(3)}]
    \cup [name : Names, phone : Phones,
          lessonIDs : {NotAnArray, Array(<<>>), Array(<<SampleLine>>)},
          numberOfSpace : NumberOfSpaces]

NoPayload == [name |-> Undefined, phone |-> Undefined, lessonIDs |-> NotAnArray,
              numberOfSpace |-> Undefined]

(* ------------------------- POST /orders handler ----------------------- *)
\* Variant: the phone check is missing from the guard.
IsValidPayloadNoPhone(payload) ==
    /\ Truthy(payload.name)
    /\ payload.lessonIDs.isArray
    /\ payload.numberOfSpace.t = "number"

\* The negation of the validation guard of the handler.
IsValidPayload(payload) ==
    /\ Truthy(payload.name)
    /\ Truthy(payload.phone)
    /\ payload.lessonIDs.isArray
    /\ payload.numberOfSpace.t = "number"

\* The three-tier filter of one line item.
LessonFilter(entry) ==
    IF Truthy(entry.lessonId) /\ ObjectIdIsValid(entry.lessonId)
    THEN [field |-> "_id", value |-> ObjectId(entry.lessonId.s)]
    ELSE IF entry.lessonId.t = "number"
    THEN [field |-> "id", value |-> entry.lessonId]
    ELSE [field |-> "id",
          value |-> IF Number(entry.lessonId).nan THEN entry.lessonId
                    ELSE Num(Number(entry.lessonId).n)]

\* const qty = Number(entry.qty) || 0
Qty(entry) ==
    LET q == Number(entry.qty)
    IN IF q.nan \/ q.n = 0 THEN 0 ELSE q.n

\* Variant: the test is qty >= 0.
IssuesUpdateNonNegative(entry) == Qty(entry) >= 0

\* if (qty > 0) the line issues an updateOne, else it resolves at once.
IssuesUpdate(entry) == Qty(entry) > 0

\* The promise each line item's callback returns, right after the map.
Dispatch(items) ==
    [l \in 1..Len(items) |-> IF IssuesUpdate(items[l]) THEN "pending" ELSE "fulfilled"]

\* Variant: Promise.allSettled, which never rejects.
PromiseAllSettled(promises) ==
    IF \A l \in 1..Len(promises) : promises[l] # "pending" THEN "fulfilled" ELSE "pending"

\* Variant: the promises are not awaited.
PromiseAllNoWait(promises) ==
    IF \E l \in 1..Len(promises) : promises[l] = "rejected" THEN "rejected" ELSE "fulfilled"

\* Promise.all: rejected as soon as one promise is rejected, fulfilled once
\* all are fulfilled, pending otherwise.
PromiseAll(promises) ==
    IF \E l \in 1..Len(promises) : promises[l] = "rejected" THEN "rejected"
    ELSE IF \A l \in 1..Len(promises) : promises[l] = "fulfilled" THEN "fulfilled"
    ELSE "pending"

IdleOrder ==
    [pc |-> "idle", payload |-> NoPayload, insertedId |-> 0, updatePromises |-> <<>>,
     status |-> 0, orderId |-> 0, logged |-> FALSE]

\* The continuation after await Promise.all(updatePromises): 201 with the
\* inserted id, or the catch block: console.error and 500.  While the
\* combined promise is pending the handler stays suspended.
AfterPromiseAll(q, promises) ==
    LET all == PromiseAll(promises)
        q1 == [q EXCEPT !.updatePromises = promises]
    IN IF q.pc # "promiseAll" THEN q1
       ELSE IF all = "fulfilled"
       THEN [q1 EXCEPT !.pc = "done", !.status = 201, !.orderId = q.insertedId]
       ELSE IF all = "rejected"
       THEN [q1 EXCEPT !.pc = "done", !.status = 500, !.logged = TRUE]
       ELSE q1

\* The r-th order request arrives: validation, then either the 400 response
\* or the insertOne call is issued.
PostOrders(r) ==
    /\ orderReq[r].pc = "idle"
    /\ IF r = 1 THEN TRUE ELSE orderReq[r - 1].pc # "idle"
    /\ \E payload \in Payloads :
          orderReq' = [orderReq EXCEPT ![r] =
              IF IsValidPayload(payload)
              THEN [@ EXCEPT !.pc = "insertOne", !.payload = payload]
              ELSE [@ EXCEPT !.pc = "done", !.payload = payload, !.status = 400]]
    /\ UNCHANGED <<Lessons, Orders, putReq, lessonsData>>

\* Variant: the total is recomputed as the number of line items.
OrderDocRecounted(payload, id) ==
    [_id |-> id, name |-> payload.name, phone |-> payload.phone,
     lessonIDs |-> payload.lessonIDs, numberOfSpace |-> Num(Len(payload.lessonIDs.items))]

\* The document insertOne stores, with the identifier it is given.
OrderDoc(payload, id) ==
    [_id |-> id, name |-> payload.name, phone |-> payload.phone,
     lessonIDs |-> payload.lessonIDs, numberOfSpace |-> payload.numberOfSpace]

\* insertOne succeeds; the handler maps the line items to their promises and
\* awaits Promise.all.
InsertOneOk(r) ==
    /\ orderReq[r].pc = "insertOne"
    /\ LET id == Len(Orders) + 1
           q == [orderReq[r] EXCEPT !.pc = "promiseAll", !.insertedId = id]
       IN /\ Orders' = Append(Orders, OrderDoc(orderReq[r].payload, id))
          /\ orderReq' = [orderReq EXCEPT ![r] =
                 AfterPromiseAll(q, Dispatch(q.payload.lessonIDs.items))]
    /\ UNCHANGED <<Lessons, putReq, lessonsData>>

\* Variant: the insert error is swallowed and the decrements are dispatched.
InsertOneFailSwallowed(r) ==
    /\ orderReq[r].pc = "insertOne"
    /\ orderReq' = [orderReq EXCEPT ![r] =
           AfterPromiseAll([@ EXCEPT !.pc = "promiseAll"],
                           Dispatch(@.payload.lessonIDs.items))]
    /\ UNCHANGED <<Lessons, Orders, putReq, lessonsData>>

\* insertOne fails: the catch block logs and answers 500.
InsertOneFail(r) ==
    /\ orderReq[r].pc = "insertOne"
    /\ orderReq' = [orderReq EXCEPT ![r] =
           [@ EXCEPT !.pc = "done", !.status = 500, !.logged = TRUE]]
    /\ UNCHANGED <<Lessons, Orders, putReq, lessonsData>>

\* The store applies the updateOne of line l of request r.
UpdateOneInc_Settle(r, l) ==
    /\ l \in 1..Len(orderReq[r].updatePromises)
    /\ orderReq[r].updatePromises[l] = "pending"
    /\ LET entry == orderReq[r].payload.lessonIDs.items[l]
           res == UpdateOneInc(Lessons, LessonFilter(entry), Qty(entry))
           promises == [orderReq[r].updatePromises EXCEPT
                           ![l] = IF res.ok THEN "fulfilled" ELSE "rejected"]
       IN /\ Lessons' = res.lessons
          /\ orderReq' = [orderReq EXCEPT ![r] = AfterPromiseAll(@, promises)]
    /\ UNCHANGED <<Orders, putReq, lessonsData>>

\* Variant: a failed decrement deletes the order again.
UpdateOneInc_FailRollback(r, l) ==
    /\ l \in 1..Len(orderReq[r].updatePromises)
    /\ orderReq[r].updatePromises[l] = "pending"
    /\ orderReq' = [orderReq EXCEPT ![r] =
           AfterPromiseAll(@, [@.updatePromises EXCEPT ![l] = "rejected"])]
    /\ Orders' = SelectSeq(Orders, LAMBDA o : o._id # orderReq[r].insertedId)
    /\ UNCHANGED <<Lessons, putReq, lessonsData>>

\* The updateOne of line l of request r fails in the store or on the way.
UpdateOneInc_Fail(r, l) ==
    /\ l \in 1..Len(orderReq[r].updatePromises)
    /\ orderReq[r].updatePromises[l] = "pending"
    /\ orderReq' = [orderReq EXCEPT ![r] =
           AfterPromiseAll(@, [@.updatePromises EXCEPT ![l] = "rejected"])]
    /\ UNCHANGED <<Lessons, Orders, putReq, lessonsData>>

(* ------------------------- PUT /lessons/:id --------------------------- *)
\* The :id path segments and the request bodies of the model.
Params == {"1", OidHex[2], "abc"}

BodyKeys == {"spaces", "subject", "id", "nonsense"}
BodyValues(k) ==
    CASE k = "spaces" -> {Num(9), Str("full")}
      [] k = "subject" -> {Str("Chess")}
      [] k = "id" -> {Num(1)}
      [] OTHER -> {Num(1)}
AllBodyValues == UNION {BodyValues(k) : k \in BodyKeys}
UpdateBodies ==
    {b \in UNION {[K -> AllBodyValues] : K \in SUBSET BodyKeys} :
        \A k \in DOMAIN b : b[k] \in BodyValues(k)}

\* The filter of the handler: opaque id, numeric id, or the raw segment.
ParamFilter(param) ==
    IF ObjectIdIsValid(Str(param))
    THEN [field |-> "_id", value |-> ObjectId(param)]
    ELSE IF ~Number(Str(param)).nan
    THEN [field |-> "id", value |-> Num(Number(Str(param)).n)]
    ELSE [field |-> "id", value |-> Str(param)]

allowed == {"subject", "location", "price", "spaces", "icon", "id"}

\* Variant: every own property of the body is copied.
SetBodyUnfiltered(updateBody) == updateBody

\* setBody: the allow-listed own properties of the request body.
SetBody(updateBody) ==
    [k \in allowed \cap DOMAIN updateBody |-> updateBody[k]]

\* {$set: setBody} on one document.
SetFields(doc, setBody) ==
    [k \in DOMAIN doc \cup DOMAIN setBody |->
        IF k \in DOMAIN setBody THEN setBody[k] ELSE doc[k]]

\* Variant: upsert, a document is created when none matches.
UpdateOneSetUpsert(lessons, filter, setBody) ==
    LET i == FindOne(lessons, filter)
    IN IF i = 0
       THEN [matchedCount |-> 0,
             lessons |-> Append(lessons, SetFields([_id |-> ObjectId(UnknownHex)], setBody))]
       ELSE [matchedCount |-> 1,
             lessons |-> [lessons EXCEPT ![i] = SetFields(lessons[i], setBody)]]

\* updateOne(filter, {$set: setBody}) without upsert.
UpdateOneSet(lessons, filter, setBody) ==
    LET i == FindOne(lessons, filter)
    IN IF i = 0 THEN [matchedCount |-> 0, lessons |-> lessons]
       ELSE [matchedCount |-> 1,
             lessons |-> [lessons EXCEPT ![i] = SetFields(lessons[i], setBody)]]

IdlePut ==
    [pc |-> "idle", param |-> "", updateBody |-> <<>>, status |-> 0, logged |-> FALSE]

\* The u-th update request arrives: 400 when no allow-listed field is
\* supplied, else the updateOne call is issued.
PutLessons(u) ==
    /\ putReq[u].pc = "idle"
    /\ IF u = 1 THEN TRUE ELSE putReq[u - 1].pc # "idle"
    /\ \E param \in Params, updateBody \in UpdateBodies :
          putReq' = [putReq EXCEPT ![u] =
              IF DOMAIN SetBody(updateBody) = {}
              THEN [@ EXCEPT !.pc = "done", !.param = param,
                             !.updateBody = updateBody, !.status = 400]
              ELSE [@ EXCEPT !.pc = "updateOne", !.param = param,
                             !.updateBody = updateBody]]
    /\ UNCHANGED <<Lessons, Orders, orderReq, lessonsData>>

\* The store applies the update: 404 when nothing matched, else 200.
UpdateOneSet_Settle(u) ==
    /\ putReq[u].pc = "updateOne"
    /\ LET result == UpdateOneSet(Lessons, ParamFilter(putReq[u].param),
                                  SetBody(putReq[u].updateBody))
       IN /\ Lessons' = result.lessons
          /\ putReq' = [putReq EXCEPT ![u] =
                 [@ EXCEPT !.pc = "done",
                           !.status = IF result.matchedCount = 0 THEN 404 ELSE 200]]
    /\ UNCHANGED <<Orders, orderReq, lessonsData>>

\* The update fails in the store or on the way: the catch block logs, 500.
UpdateOneSet_Fail(u) ==
    /\ putReq[u].pc = "updateOne"
    /\ putReq' = [putReq EXCEPT ![u] =
           [@ EXCEPT !.pc = "done", !.status = 500, !.logged = TRUE]]
    /\ UNCHANGED <<Lessons, Orders, orderReq, lessonsData>>

(* --------------------------- specifications --------------------------- *)
\* The service after start-up on a freshly seeded store.
Init ==
    /\ lessonsData = SeedCatalog
    /\ Lessons = lessonsData
    /\ Orders = <<>>
    /\ orderReq = [r \in 1..MaxOrders |-> IdleOrder]
    /\ putReq = [u \in 1..MaxUpdates |-> IdlePut]

\* Orders only: up to MaxOrders concurrent POST /orders requests.
NextOrders ==
    \/ \E r \in 1..MaxOrders : PostOrders(r)
    \/ \E r \in 1..MaxOrders : InsertOneOk(r)
    \/ \E r \in 1..MaxOrders : InsertOneFail(r)
    \/ \E r \in 1..MaxOrders, l \in 1..MaxLines : UpdateOneInc_Settle(r, l)
    \/ \E r \in 1..MaxOrders, l \in 1..MaxLines : UpdateOneInc_Fail(r, l)

SpecOrders == Init /\ [][NextOrders]_vars

\* Orders and lesson updates served concurrently.
Next ==
    \/ \E r \in 1..MaxMixedOrders : PostOrders(r)
    \/ \E r \in 1..MaxMixedOrders : InsertOneOk(r)
    \/ \E r \in 1..MaxMixedOrders : InsertOneFail(r)
    \/ \E r \in 1..MaxMixedOrders, l \in 1..MaxLines : UpdateOneInc_Settle(r, l)
    \/ \E r \in 1..MaxMixedOrders, l \in 1..MaxLines : UpdateOneInc_Fail(r, l)
    \/ \E u \in 1..MaxUpdates : PutLessons(u)
    \/ \E u \in 1..MaxUpdates : UpdateOneSet_Settle(u)
    \/ \E u \in 1..MaxUpdates : UpdateOneSet_Fail(u)

Spec == Init /\ [][Next]_vars

(* ------------------------------ claims -------------------------------- *)
RECURSIVE SumSeq(_)
SumSeq(s) == IF s = <<>> THEN 0 ELSE Head(s) + SumSeq(Tail(s))

Received(r) == orderReq[r].pc # "idle"
Items(r) == orderReq[r].payload.lessonIDs.items
HasRejected(r) ==
    \E l \in 1..Len(orderReq[r].updatePromises) : orderReq[r].updatePromises[l] = "rejected"

\* The numeric value of a line's quantity, 0 when it is zero, negative or no number.
Quantity(entry) ==
    LET q == Number(entry.qty) IN IF ~q.nan /\ q.n > 0 THEN q.n ELSE 0
ZeroOrUnparseable(entry) == Number(entry.qty).nan \/ Number(entry.qty).n = 0

\* The lesson of the seeded catalog a line item resolves to, 0 if none.
ResolvesTo(entry) == FindOne(lessonsData, LessonFilter(entry))

\* The Order Store holds the request's record, with the submitted fields.
OrderRecorded(r) ==
    /\ orderReq[r].insertedId \in 1..Len(Orders)
    /\ Orders[orderReq[r].insertedId].name = orderReq[r].payload.name
    /\ Orders[orderReq[r].insertedId].phone = orderReq[r].payload.phone
    /\ Orders[orderReq[r].insertedId].lessonIDs = orderReq[r].payload.lessonIDs
    /\ Orders[orderReq[r].insertedId].numberOfSpace = orderReq[r].payload.numberOfSpace

\* What the fulfilled decrements of all requests have taken from lesson i.
AppliedBy(r, i) ==
    SumSeq([l \in 1..Len(orderReq[r].updatePromises) |->
              IF orderReq[r].updatePromises[l] = "fulfilled" /\ ResolvesTo(Items(r)[l]) = i
              THEN Quantity(Items(r)[l]) ELSE 0])
Applied(i) == SumSeq([r \in 1..MaxOrders |-> AppliedBy(r, i)])

\* What all line items of request r ask of lesson i.
RequestedBy(r, i) ==
    SumSeq([l \in 1..Len(Items(r)) |->
              IF ResolvesTo(Items(r)[l]) = i THEN Quantity(Items(r)[l]) ELSE 0])

SpacesAfter(i, taken) == [lessonsData[i] EXCEPT !.spaces = Num(lessonsData[i].spaces.n - taken)]

\* C1: an order whose name or phone is missing or empty, whose lessonIDs is no
\* array or whose numberOfSpace is no number is answered 400, inserts no order
\* and issues no decrement; when only such orders were received both stores
\* are as seeded.
InvalidByClaim(payload) ==
    \/ payload.name \in {Undefined, Str("")}
    \/ payload.phone \in {Undefined, Str("")}
    \/ ~payload.lessonIDs.isArray
    \/ payload.numberOfSpace.t # "number"
C1_InvalidPayloadRejected ==
    /\ \A r \in 1..MaxOrders :
         Received(r) /\ InvalidByClaim(orderReq[r].payload) =>
            /\ orderReq[r].pc = "done" /\ orderReq[r].status = 400
            /\ orderReq[r].insertedId = 0
            /\ orderReq[r].updatePromises = <<>>
    /\ Len(Orders) =
         Cardinality({r \in 1..MaxOrders : orderReq[r].insertedId # 0
                                           /\ ~InvalidByClaim(orderReq[r].payload)})
    /\ (\A r \in 1..MaxOrders : Received(r) => InvalidByClaim(orderReq[r].payload))
         => Lessons = lessonsData /\ Orders = <<>>
C1_Witness ==
    \E r \in 1..MaxOrders :
        /\ orderReq[r].payload.phone = Undefined
        /\ orderReq[r].payload.name = Str("Ann")
        /\ orderReq[r].payload.numberOfSpace = Num(3)
        /\ orderReq[r].payload.lessonIDs = Array(<<SampleLine>>)
        /\ orderReq[r].status = 400
        /\ Lessons = lessonsData /\ Orders = <<>>

\* C2: once every received order has been answered 201 (insert and all
\* decrements succeeded) or 400, the Order Store holds exactly one record per
\* 201 order, with the submitted fields verbatim, and every lesson has its
\* seeded spaces minus the positive quantities of the lines resolving to it;
\* all other fields and unreferenced lessons are as seeded.
AllSucceeded ==
    \A r \in 1..MaxOrders :
        Received(r) => orderReq[r].pc = "done" /\ orderReq[r].status \in {201, 400}
Created == {r \in 1..MaxOrders : orderReq[r].status = 201}
C2_OrderRecordedAndSpacesDecremented ==
    AllSucceeded =>
        /\ Len(Orders) = Cardinality(Created)
        /\ \A r \in Created : OrderRecorded(r)
        /\ \A i \in 1..Len(Lessons) :
              Lessons[i] = SpacesAfter(i,
                  SumSeq([r \in 1..MaxOrders |->
                            IF r \in Created THEN RequestedBy(r, i) ELSE 0]))
C2_Witness ==
    /\ AllSucceeded
    /\ orderReq[1].status = 201
    /\ orderReq[1].payload.lessonIDs =
          Array(<<[lessonId |-> Num(1), qty |-> Num(3)],
                  [lessonId |-> Str("9"), qty |-> Num(3)]>>)
    /\ ~Received(2)
    /\ Lessons[1].spaces = Num(2) /\ Lessons[2].spaces = Num(5)
    /\ Len(Orders) = 1

\* C3: when fulfilled decrements of two different orders hit the same lesson,
\* in every interleaving its spaces is the seeded value minus everything the
\* fulfilled decrements took, below zero included.
HitsLesson(r, i) ==
    \E l \in 1..Len(orderReq[r].updatePromises) :
        /\ orderReq[r].updatePromises[l] = "fulfilled"
        /\ ResolvesTo(Items(r)[l]) = i /\ Quantity(Items(r)[l]) > 0
C3_ConcurrentDecrementsBothApply ==
    \A i \in 1..Len(Lessons) :
        (\E r1, r2 \in 1..MaxOrders : r1 # r2 /\ HitsLesson(r1, i) /\ HitsLesson(r2, i))
            => Lessons[i].spaces = Num(lessonsData[i].spaces.n - Applied(i))
C3_Witness ==
    /\ orderReq[1].pc = "promiseAll" /\ orderReq[2].pc = "promiseAll"
    /\ orderReq[1].payload.lessonIDs.items[1] = [lessonId |-> Num(1), qty |-> Num(3)]
    /\ orderReq[2].payload.lessonIDs.items[1] = [lessonId |-> Num(1), qty |-> Str("4")]
    /\ orderReq[1].updatePromises[1] = "fulfilled"
    /\ orderReq[2].updatePromises[1] = "fulfilled"
    /\ Applied(1) = 7
    /\ Lessons[1].spaces = Num(-2)

\* C4: a request has dispatched decrements only after its insert succeeded;
\* a valid order whose insert failed is answered 500, has no record and
\* dispatched nothing; while no insert has succeeded the catalog is as seeded.
InsertFailed(r) ==
    /\ orderReq[r].pc = "done" /\ orderReq[r].insertedId = 0
    /\ ~InvalidByClaim(orderReq[r].payload)
C4_NoDecrementBeforeInsert ==
    /\ \A r \in 1..MaxOrders :
         /\ orderReq[r].updatePromises # <<>> => OrderRecorded(r)
         /\ InsertFailed(r) =>
              /\ orderReq[r].status = 500
              /\ orderReq[r].updatePromises = <<>>
              /\ \A n \in 1..Len(Orders) : Orders[n]._id # orderReq[r].insertedId
    /\ Len(Orders) = Cardinality({r \in 1..MaxOrders : orderReq[r].insertedId # 0})
    /\ (\A r \in 1..MaxOrders : orderReq[r].insertedId = 0) => Lessons = lessonsData
C4_Witness ==
    \E r \in 1..MaxOrders :
        /\ InsertFailed(r) /\ orderReq[r].status = 500
        /\ Len(Items(r)) = 2 /\ \A l \in 1..2 : Quantity(Items(r)[l]) > 0
        /\ Lessons = lessonsData /\ Orders = <<>>

\* C5, as claimed: an order whose insert succeeded and one of whose decrements
\* failed is answered 201 with the order identifier.
C5_AsClaimed ==
    \A r \in 1..MaxOrders :
        orderReq[r].pc = "done" /\ orderReq[r].insertedId # 0 /\ HasRejected(r) =>
            orderReq[r].status = 201 /\ orderReq[r].orderId = orderReq[r].insertedId
\* C5, amended: an order whose insert succeeded and one of whose decrements
\* failed has been answered 500 without an order identifier, the failure is
\* logged, and its record stays in the Order Store.
C5_DecrementFailureAnswered500 ==
    \A r \in 1..MaxOrders :
        orderReq[r].insertedId # 0 /\ HasRejected(r) =>
            /\ orderReq[r].pc = "done" /\ orderReq[r].status = 500
            /\ orderReq[r].orderId = 0
            /\ orderReq[r].logged
            /\ OrderRecorded(r)
C5_Witness ==
    \E r \in 1..MaxOrders :
        /\ orderReq[r].insertedId # 0 /\ HasRejected(r)
        /\ orderReq[r].status = 500 /\ orderReq[r].logged
        /\ OrderRecorded(r)

\* C6: when a decrement of an order has failed, the order's record is still in
\* the Order Store and every lesson still lacks all that the fulfilled
\* decrements took from it.
C6_NoCompensation ==
    \A r \in 1..MaxOrders :
        HasRejected(r) =>
            /\ OrderRecorded(r)
            /\ \A i \in 1..Len(Lessons) : Lessons[i] = SpacesAfter(i, Applied(i))
C6_Witness ==
    \E r \in 1..MaxOrders :
        /\ orderReq[r].updatePromises = <<"rejected", "fulfilled">>
        /\ Items(r)[2] = [lessonId |-> Str(OidHex[2]), qty |-> Num(3)]
        /\ orderReq[r].status = 500
        /\ OrderRecorded(r)
        /\ Lessons[2].spaces = Num(2)

\* C7: a line whose quantity is zero or no number is fulfilled at once in an
\* inserted order, neither pending nor rejected, and a lesson that only such
\* lines resolve to is as seeded.
C7_ZeroQuantitySkipped ==
    /\ \A r \in 1..MaxOrders : \A l \in 1..Len(orderReq[r].updatePromises) :
         ZeroOrUnparseable(Items(r)[l]) =>
            orderReq[r].updatePromises[l] = "fulfilled" /\ OrderRecorded(r)
    /\ \A i \in 1..Len(Lessons) :
         (\A r \in 1..MaxOrders : \A l \in 1..Len(Items(r)) :
             ResolvesTo(Items(r)[l]) = i => ZeroOrUnparseable(Items(r)[l]))
           => Lessons[i] = lessonsData[i]
C7_Witness ==
    \E r \in 1..MaxOrders :
        /\ Items(r) = <<[lessonId |-> Num(1), qty |-> Str("abc")],
                        [lessonId |-> Str(OidHex[2]), qty |-> Num(3)]>>
        /\ orderReq[r].status = 201 /\ OrderRecorded(r)
        /\ Lessons[1].spaces = Num(5) /\ Lessons[2].spaces = Num(2)

\* C10: an order is answered 201 only when all its decrements are fulfilled,
\* and an inserted order is answered only when none of its decrements is
\* pending or one of them has failed.
C10_RespondsAfterPromiseAll ==
    \A r \in 1..MaxOrders :
        /\ orderReq[r].status = 201 =>
              \A l \in 1..Len(Items(r)) : orderReq[r].updatePromises[l] = "fulfilled"
        /\ orderReq[r].pc = "done" /\ orderReq[r].insertedId # 0 =>
              \/ \A l \in 1..Len(Items(r)) : orderReq[r].updatePromises[l] # "pending"
              \/ HasRejected(r)
C10_Witness ==
    \E r \in 1..MaxOrders :
        /\ orderReq[r].status = 201
        /\ Len(Items(r)) = 2 /\ \A l \in 1..2 : Quantity(Items(r)[l]) > 0
        /\ orderReq[r].updatePromises = <<"fulfilled", "fulfilled">>

\* C8: a step in which an update request is answered 200 overwrites, on the
\* first lesson matching its reference, exactly the supplied fields of the
\* allow-list; that lesson gains no other key and keeps every other field,
\* and all other lessons and the Order Store are unchanged.
AllowList == {"subject", "location", "price", "spaces", "icon", "id"}
Answered(u, status) == putReq[u].status = 0 /\ putReq'[u].status = status
C8_Step ==
    \A u \in 1..MaxUpdates :
        Answered(u, 200) =>
            LET i == FindOne(Lessons, ParamFilter(putReq[u].param))
                body == putReq[u].updateBody
            IN /\ i # 0
               /\ Len(Lessons') = Len(Lessons)
               /\ DOMAIN Lessons'[i] = DOMAIN Lessons[i]
               /\ \A k \in DOMAIN Lessons[i] :
                     Lessons'[i][k] = IF k \in AllowList \cap DOMAIN body
                                      THEN body[k] ELSE Lessons[i][k]
               /\ \A j \in 1..Len(Lessons) : j # i => Lessons'[j] = Lessons[j]
               /\ Orders' = Orders
C8_UpdateOverwritesAllowedFields == [][C8_Step]_vars
C8_Witness ==
    \E u \in 1..MaxUpdates :
        /\ putReq[u].status = 200
        /\ putReq[u].param = "1"
        /\ DOMAIN putReq[u].updateBody = {"spaces", "nonsense"}
        /\ putReq[u].updateBody["spaces"] = Num(9)
        /\ Lessons[1].spaces = Num(9)
        /\ Lessons[1].subject = lessonsData[1].subject
        /\ "nonsense" \notin DOMAIN Lessons[1]
        /\ Lessons[2] = lessonsData[2]

\* C9: an update request supplying no allow-listed field is answered 400 on
\* arrival, matching reference or not; one supplying some is answered 404
\* exactly when the store finds no lesson for its reference; and a step that
\* answers 400 or 404 leaves the catalog, its length included, and the Order
\* Store unchanged.
C9_Step ==
    \A u \in 1..MaxUpdates :
        /\ putReq[u].pc = "idle" /\ putReq'[u].pc # "idle"
             /\ AllowList \cap DOMAIN putReq'[u].updateBody = {}
             => putReq'[u].status = 400
        /\ Answered(u, 400) => AllowList \cap DOMAIN putReq'[u].updateBody = {}
        /\ Answered(u, 404) => FindOne(Lessons, ParamFilter(putReq[u].param)) = 0
        /\ Answered(u, 200) => FindOne(Lessons, ParamFilter(putReq[u].param)) # 0
        /\ Answered(u, 400) \/ Answered(u, 404) =>
              Lessons' = Lessons /\ Len(Lessons') = Len(Lessons) /\ Orders' = Orders
C9_RejectedUpdateChangesNothing == [][C9_Step]_vars
C9_Witness ==
    \E u \in 1..MaxUpdates :
        /\ putReq[u].status = 404
        /\ putReq[u].param = "abc"
        /\ "spaces" \in DOMAIN putReq[u].updateBody
        /\ Len(Lessons) = NumLessons
        /\ \A i \in 1..Len(Lessons) : Lessons[i].subject = lessonsData[i].subject
====
